---- MODULE Spec2Model ----
(***************************************************************************)
(* Logoot sequence CRDT (lib/logoot/sequence.js): identifier comparison,   *)
(* position generation and ordered insertion, plus a system of replicas    *)
(* exchanging atoms.                                                       *)
(*                                                                         *)
(* Data shapes follow the JavaScript arrays:                               *)
(*   ident     = <<int, site>>                                             *)
(*   position  = sequence of idents                                        *)
(*   atomIdent = <<position, clock>>                                       *)
(*   atom      = <<atomIdent, value>>                                      *)
(*   sequence  = sequence of atoms                                         *)
(* JavaScript indexes are 0-based; sequence[i] is written sequence[i + 1]. *)
(***************************************************************************)
EXTENDS Integers, Sequences, FiniteSets, TLC

VARIABLES seqs, clocks, net, applied, gens, deps, heap, call, ret

vars == <<seqs, clocks, net, applied, gens, deps, heap, call, ret>>

(* ---------------------------- bounds ----------------------------------- *)
\* largest integer of an ident in the enumerated positions
MaxInt == 1
\* largest site ID (site IDs are 0..MaxSite)
MaxSite == 1
\* longest position enumerated in full (ExtraPositions adds longer ones)
MaxLen == 1
\* largest clock of an enumerated atom identifier
MaxClock == 1
\* the random source Math.random() takes the values k / RandDen, k < RandDen
RandDen == 2
\* most atoms between the sentinels of an enumerated sequence
MaxSeq == 1
\* most atoms generated in one execution of the replica system
MaxAtoms == 2

(* ------------------------- program constants --------------------------- *)
MAX_POS == 32767
ABS_MIN_ATOM_IDENT == << << <<0, 0>> >>, 0 >>
ABS_MAX_ATOM_IDENT == << << <<MAX_POS, 0>> >>, 1 >>
min == ABS_MIN_ATOM_IDENT
max == ABS_MAX_ATOM_IDENT
\* JavaScript null (the value of the sentinel atoms)
null == "null"

(* --------------------------- comparison -------------------------------- *)
\* mutant: the site test accepts equality
compareIdents_SiteGeq(identA, identB) ==
  IF identA[1] > identB[1] THEN 1
  ELSE IF identA[1] < identB[1] THEN -1
  ELSE IF identA[2] >= identB[2] THEN 1
  ELSE IF identA[2] < identB[2] THEN -1
  ELSE 0

compareIdents(identA, identB) ==
  IF identA[1] > identB[1] THEN 1
  ELSE IF identA[1] < identB[1] THEN -1
  ELSE IF identA[2] > identB[2] THEN 1
  ELSE IF identA[2] < identB[2] THEN -1
  ELSE 0

\* mutant: a position that outlasts posB is reported as less than it
RECURSIVE comparePositions_LongerIsLess(_, _)
comparePositions_LongerIsLess(posA, posB) ==
  IF Len(posA) = 0 /\ Len(posB) = 0 THEN 0
  ELSE IF Len(posA) = 0 THEN -1
  ELSE IF Len(posB) = 0 THEN -1
  ELSE LET c == compareIdents(posA[1], posB[1])
       IN  IF c = 1 THEN 1
           ELSE IF c = -1 THEN -1
           ELSE comparePositions_LongerIsLess(Tail(posA), Tail(posB))

RECURSIVE comparePositions(_, _)
comparePositions(posA, posB) ==
  IF Len(posA) = 0 /\ Len(posB) = 0 THEN 0
  ELSE IF Len(posA) = 0 THEN -1
  ELSE IF Len(posB) = 0 THEN 1
  ELSE LET c == compareIdents(posA[1], posB[1])
       IN  IF c = 1 THEN 1
           ELSE IF c = -1 THEN -1
           ELSE comparePositions(Tail(posA), Tail(posB))

\* mutant: equal positions are ordered by their clocks
compareAtomIdents_ClockTiebreak(atomIdentA, atomIdentB) ==
  LET c == comparePositions(atomIdentA[1], atomIdentB[1])
  IN  IF c # 0 THEN c
      ELSE IF atomIdentA[2] > atomIdentB[2] THEN 1
      ELSE IF atomIdentA[2] < atomIdentB[2] THEN -1
      ELSE 0

compareAtomIdents(atomIdentA, atomIdentB) ==
  comparePositions(atomIdentA[1], atomIdentB[1])

\* mutant: both sentinels carry the clock of the minimum
emptySequence_MaxClockZero ==
  << <<ABS_MIN_ATOM_IDENT, null>>, << <<ABS_MAX_ATOM_IDENT[1], 0>>, null>> >>

emptySequence == << <<ABS_MIN_ATOM_IDENT, null>>, <<ABS_MAX_ATOM_IDENT, null>> >>

(* --------------------------- generation -------------------------------- *)
\* mutant: the lower bound is not skipped
randomIntBetween_FloorIncluded(lo, hi, rnd) ==
  ((rnd * (hi - lo)) \div RandDen) + lo

\* rnd is the numerator k of the value k / RandDen returned by Math.random()
randomIntBetween(lo, hi, rnd) ==
  ((rnd * (hi - (lo + 1))) \div RandDen) + lo + 1

\* mutant: the new ident carries the site of the previous ident
RECURSIVE genPosition_PrevSite(_, _, _, _)
genPosition_PrevSite(siteID, prevPos0, nextPos0, rnd) ==
  LET prevPos == IF Len(prevPos0) > 0 THEN prevPos0 ELSE min[1]
      nextPos == IF Len(nextPos0) > 0 THEN nextPos0 ELSE max[1]
      prevHead == prevPos[1]
      nextHead == nextPos[1]
      prevInt == prevHead[1]
      prevSiteID == prevHead[2]
      nextInt == nextHead[1]
      cmp == compareIdents(prevHead, nextHead)
      diff == nextInt - prevInt
      rest == genPosition_PrevSite(siteID, Tail(prevPos), Tail(nextPos), rnd)
      deeper == [err |-> rest.err,
                 pos |-> IF rest.err THEN << >> ELSE <<prevHead>> \o rest.pos,
                 levels |-> rest.levels + 1, draws |-> rest.draws]
  IN  IF cmp = -1
      THEN IF diff > 1
           THEN [err |-> FALSE,
                 pos |-> << <<randomIntBetween(prevInt, nextInt, rnd), prevSiteID>> >>,
                 levels |-> 1,
                 draws |-> << <<prevInt, nextInt,
                                randomIntBetween(prevInt, nextInt, rnd)>> >>]
           ELSE IF diff = 1 /\ siteID > prevSiteID
           THEN [err |-> FALSE, pos |-> << <<prevInt, siteID>> >>, levels |-> 1,
                 draws |-> << >>]
           ELSE deeper
      ELSE IF cmp = 0
      THEN deeper
      ELSE [err |-> TRUE, pos |-> << >>, levels |-> 1, draws |-> << >>]

\* mutant: a difference of one between the heads counts as room for a draw
RECURSIVE genPosition_DiffGeq1(_, _, _, _)
genPosition_DiffGeq1(siteID, prevPos0, nextPos0, rnd) ==
  LET prevPos == IF Len(prevPos0) > 0 THEN prevPos0 ELSE min[1]
      nextPos == IF Len(nextPos0) > 0 THEN nextPos0 ELSE max[1]
      prevHead == prevPos[1]
      nextHead == nextPos[1]
      prevInt == prevHead[1]
      prevSiteID == prevHead[2]
      nextInt == nextHead[1]
      cmp == compareIdents(prevHead, nextHead)
      diff == nextInt - prevInt
      rest == genPosition_DiffGeq1(siteID, Tail(prevPos), Tail(nextPos), rnd)
      deeper == [err |-> rest.err,
                 pos |-> IF rest.err THEN << >> ELSE <<prevHead>> \o rest.pos,
                 levels |-> rest.levels + 1, draws |-> rest.draws]
  IN  IF cmp = -1
      THEN IF diff >= 1
           THEN [err |-> FALSE,
                 pos |-> << <<randomIntBetween(prevInt, nextInt, rnd), siteID>> >>,
                 levels |-> 1,
                 draws |-> << <<prevInt, nextInt,
                                randomIntBetween(prevInt, nextInt, rnd)>> >>]
           ELSE IF diff = 1 /\ siteID > prevSiteID
           THEN [err |-> FALSE, pos |-> << <<prevInt, siteID>> >>, levels |-> 1,
                 draws |-> << >>]
           ELSE deeper
      ELSE IF cmp = 0
      THEN deeper
      ELSE [err |-> TRUE, pos |-> << >>, levels |-> 1, draws |-> << >>]

\* mutant: with a difference of one the integer of prev is reused whatever the site
RECURSIVE genPosition_NoSiteTest(_, _, _, _)
genPosition_NoSiteTest(siteID, prevPos0, nextPos0, rnd) ==
  LET prevPos == IF Len(prevPos0) > 0 THEN prevPos0 ELSE min[1]
      nextPos == IF Len(nextPos0) > 0 THEN nextPos0 ELSE max[1]
      prevHead == prevPos[1]
      nextHead == nextPos[1]
      prevInt == prevHead[1]
      prevSiteID == prevHead[2]
      nextInt == nextHead[1]
      cmp == compareIdents(prevHead, nextHead)
      diff == nextInt - prevInt
      rest == genPosition_NoSiteTest(siteID, Tail(prevPos), Tail(nextPos), rnd)
      deeper == [err |-> rest.err,
                 pos |-> IF rest.err THEN << >> ELSE <<prevHead>> \o rest.pos,
                 levels |-> rest.levels + 1, draws |-> rest.draws]
  IN  IF cmp = -1
      THEN IF diff > 1
           THEN [err |-> FALSE,
                 pos |-> << <<randomIntBetween(prevInt, nextInt, rnd), siteID>> >>,
                 levels |-> 1,
                 draws |-> << <<prevInt, nextInt,
                                randomIntBetween(prevInt, nextInt, rnd)>> >>]
           ELSE IF diff = 1
           THEN [err |-> FALSE, pos |-> << <<prevInt, siteID>> >>, levels |-> 1,
                 draws |-> << >>]
           ELSE deeper
      ELSE IF cmp = 0
      THEN deeper
      ELSE [err |-> TRUE, pos |-> << >>, levels |-> 1, draws |-> << >>]

\* The result is [err, pos, levels, draws]: err is TRUE when the call throws
\* '"Next" position was less than "previous" position.', pos is the returned
\* position otherwise, levels counts the invocations of genPosition, draws
\* lists the calls <<min, max, result>> of randomIntBetween.
\* At most one level draws a random number, so one rnd serves the whole call.
RECURSIVE genPosition(_, _, _, _)
genPosition(siteID, prevPos0, nextPos0, rnd) ==
  LET prevPos == IF Len(prevPos0) > 0 THEN prevPos0 ELSE min[1]
      nextPos == IF Len(nextPos0) > 0 THEN nextPos0 ELSE max[1]
      prevHead == prevPos[1]
      nextHead == nextPos[1]
      prevInt == prevHead[1]
      prevSiteID == prevHead[2]
      nextInt == nextHead[1]
      cmp == compareIdents(prevHead, nextHead)
      diff == nextInt - prevInt
      rest == genPosition(siteID, Tail(prevPos), Tail(nextPos), rnd)
      deeper == [err |-> rest.err,
                 pos |-> IF rest.err THEN << >> ELSE <<prevHead>> \o rest.pos,
                 levels |-> rest.levels + 1, draws |-> rest.draws]
  IN  IF cmp = -1
      THEN IF diff > 1
           THEN [err |-> FALSE,
                 pos |-> << <<randomIntBetween(prevInt, nextInt, rnd), siteID>> >>,
                 levels |-> 1,
                 draws |-> << <<prevInt, nextInt,
                                randomIntBetween(prevInt, nextInt, rnd)>> >>]
           ELSE IF diff = 1 /\ siteID > prevSiteID
           THEN [err |-> FALSE, pos |-> << <<prevInt, siteID>> >>, levels |-> 1,
                 draws |-> << >>]
           ELSE deeper
      ELSE IF cmp = 0
      THEN deeper
      ELSE [err |-> TRUE, pos |-> << >>, levels |-> 1, draws |-> << >>]

\* genPosition of dist/logoot.js: [err, heads, last], where err is "none",
\* "Error" (the throw of case 1) or "TypeError", and the value returned is
\* the array [h1, [h2, ... [hk, last]]] for heads = <<h1, ..., hk>>: each
\* recursion returns the two-element array [prevHead, genPosition(...)] and
\* last is the one-identifier list of a return without recursion.  An empty
\* position is replaced by the atom identifier min or max, whose head is a
\* position and whose rest is the list of its clock: prevIsClock and
\* nextIsClock tell that prevPos0 or nextPos0 is such a rest, whose head is
\* a number that _slicedToArray refuses.  With a position as a head, the
\* comparisons of compareIdents are comparisons of an array: two arrays
\* compare as the strings "0,0" < "32767,0", an array and a number as NaN.
RECURSIVE dist_genPositionFrom(_, _, _, _, _, _)
dist_genPositionFrom(siteID, prevPos0, nextPos0, prevIsClock, nextIsClock, rnd) ==
  LET prevDefault == Len(prevPos0) = 0
      nextDefault == Len(nextPos0) = 0
      prevPos == IF prevDefault THEN min ELSE prevPos0
      nextPos == IF nextDefault THEN max ELSE nextPos0
      prevHead == prevPos[1]
      nextHead == nextPos[1]
      prevInt == prevHead[1]
      prevSiteID == prevHead[2]
      nextInt == nextHead[1]
      cmp == IF prevDefault /\ nextDefault THEN -1
             ELSE IF prevDefault \/ nextDefault THEN 0
             ELSE compareIdents(prevHead, nextHead)
      diff == nextInt - prevInt
      rest == dist_genPositionFrom(siteID, Tail(prevPos), Tail(nextPos),
                                   prevDefault, nextDefault, rnd)
      deeper == IF rest.err # "none"
                THEN rest
                ELSE [err |-> "none", heads |-> <<prevHead>> \o rest.heads,
                      last |-> rest.last]
  IN  IF (~prevDefault /\ prevIsClock) \/ (~nextDefault /\ nextIsClock)
      THEN [err |-> "TypeError", heads |-> << >>, last |-> << >>]
      ELSE IF cmp = -1
      THEN IF prevDefault
           THEN deeper
           ELSE IF diff > 1
           THEN [err |-> "none", heads |-> << >>,
                 last |-> << <<randomIntBetween(prevInt, nextInt, rnd), siteID>> >>]
           ELSE IF diff = 1 /\ siteID > prevSiteID
           THEN [err |-> "none", heads |-> << >>,
                 last |-> << <<prevInt, siteID>> >>]
           ELSE deeper
      ELSE IF cmp = 0
      THEN deeper
      ELSE [err |-> "Error", heads |-> << >>, last |-> << >>]

dist_genPosition(siteID, prevPos, nextPos, rnd) ==
  dist_genPositionFrom(siteID, prevPos, nextPos, FALSE, FALSE, rnd)

\* [err, ident]: the generated atom identifier [position, clock], or the throw
genAtomIdent(siteID, clock, prevAtomIdent, nextAtomIdent, rnd) ==
  LET g == genPosition(siteID, prevAtomIdent[1], nextAtomIdent[1], rnd)
  IN  [err |-> g.err, ident |-> <<g.pos, clock>>]

(* ---------------------------- insertion -------------------------------- *)
\* A placement function that inserts at the given (0-based) index, as
\* Array.prototype.splice(index, 0, atom) does.
insertAt(sequence, index, atom) ==
  SubSeq(sequence, 1, index) \o <<atom>> \o SubSeq(sequence, index + 1, Len(sequence))

\* Another placement function of a caller: it overwrites the atom at the
\* index, as sequence[index] = atom does, and returns the sequence.
replaceAt(sequence, index, atom) ==
  [k \in 1..Len(sequence) |-> IF k = index + 1 THEN atom ELSE sequence[k]]

\* the call insertFunc(sequence, index, atom) for a placement function given
\* by its name
callInsertFunc(insertFunc, sequence, index, atom) ==
  IF insertFunc = "insertAt"
  THEN insertAt(sequence, index, atom)
  ELSE replaceAt(sequence, index, atom)

\* mutant: insertFunc receives the index of prev
RECURSIVE insertAtomFrom_IndexOfPrev(_, _, _, _)
insertAtomFrom_IndexOfPrev(sequence, atom, insertFunc, i) ==
  IF ~(i < Len(sequence))
  THEN [status |-> "undefined", seq |-> sequence, calls |-> 0, index |-> -1,
        iterations |-> i]
  ELSE IF i + 2 > Len(sequence)
  THEN [status |-> "TypeError", seq |-> sequence, calls |-> 0, index |-> -1,
        iterations |-> i + 1]
  ELSE LET prev == sequence[i + 1]
           next == sequence[i + 2]
           position == atom[1][1]
           prevPosition == prev[1][1]
           nextPosition == next[1][1]
           c0 == comparePositions(position, prevPosition)
           c1 == comparePositions(position, nextPosition)
       IN  IF c0 = 1 /\ c1 = -1
           THEN IF insertFunc # "undefined"
                THEN [status |-> "inserted",
                      seq |-> callInsertFunc(insertFunc, sequence, i, atom),
                      calls |-> 1, index |-> i, iterations |-> i + 1]
                ELSE [status |-> "TypeError", seq |-> sequence, calls |-> 0,
                      index |-> -1, iterations |-> i + 1]
           ELSE IF c0 = 1 /\ c1 = 1
           THEN insertAtomFrom_IndexOfPrev(sequence, atom, insertFunc, i + 1)
           ELSE IF (c0 = -1 /\ c1 = 1) \/ (c0 = -1 /\ c1 = -1)
           THEN [status |-> "OutOfOrder", seq |-> sequence, calls |-> 0,
                 index |-> -1, iterations |-> i + 1]
           ELSE [status |-> "unchanged", seq |-> sequence, calls |-> 0,
                 index |-> -1, iterations |-> i + 1]

\* mutant: insertFunc receives the index after next
RECURSIVE insertAtomFrom_IndexAfterNext(_, _, _, _)
insertAtomFrom_IndexAfterNext(sequence, atom, insertFunc, i) ==
  IF ~(i < Len(sequence))
  THEN [status |-> "undefined", seq |-> sequence, calls |-> 0, index |-> -1,
        iterations |-> i]
  ELSE IF i + 2 > Len(sequence)
  THEN [status |-> "TypeError", seq |-> sequence, calls |-> 0, index |-> -1,
        iterations |-> i + 1]
  ELSE LET prev == sequence[i + 1]
           next == sequence[i + 2]
           position == atom[1][1]
           prevPosition == prev[1][1]
           nextPosition == next[1][1]
           c0 == comparePositions(position, prevPosition)
           c1 == comparePositions(position, nextPosition)
       IN  IF c0 = 1 /\ c1 = -1
           THEN IF insertFunc # "undefined"
                THEN [status |-> "inserted",
                      seq |-> callInsertFunc(insertFunc, sequence, i + 2, atom),
                      calls |-> 1, index |-> i + 2, iterations |-> i + 1]
                ELSE [status |-> "TypeError", seq |-> sequence, calls |-> 0,
                      index |-> -1, iterations |-> i + 1]
           ELSE IF c0 = 1 /\ c1 = 1
           THEN insertAtomFrom_IndexAfterNext(sequence, atom, insertFunc, i + 1)
           ELSE IF (c0 = -1 /\ c1 = 1) \/ (c0 = -1 /\ c1 = -1)
           THEN [status |-> "OutOfOrder", seq |-> sequence, calls |-> 0,
                 index |-> -1, iterations |-> i + 1]
           ELSE [status |-> "unchanged", seq |-> sequence, calls |-> 0,
                 index |-> -1, iterations |-> i + 1]

\* mutant: an atom equal to next is taken for a new atom before next
RECURSIVE insertAtomFrom_EqualNextIsSlot(_, _, _, _)
insertAtomFrom_EqualNextIsSlot(sequence, atom, insertFunc, i) ==
  IF ~(i < Len(sequence))
  THEN [status |-> "undefined", seq |-> sequence, calls |-> 0, index |-> -1,
        iterations |-> i]
  ELSE IF i + 2 > Len(sequence)
  THEN [status |-> "TypeError", seq |-> sequence, calls |-> 0, index |-> -1,
        iterations |-> i + 1]
  ELSE LET prev == sequence[i + 1]
           next == sequence[i + 2]
           position == atom[1][1]
           prevPosition == prev[1][1]
           nextPosition == next[1][1]
           c0 == comparePositions(position, prevPosition)
           c1 == comparePositions(position, nextPosition)
       IN  IF c0 = 1 /\ c1 # 1
           THEN IF insertFunc # "undefined"
                THEN [status |-> "inserted",
                      seq |-> callInsertFunc(insertFunc, sequence, i + 1, atom),
                      calls |-> 1, index |-> i + 1, iterations |-> i + 1]
                ELSE [status |-> "TypeError", seq |-> sequence, calls |-> 0,
                      index |-> -1, iterations |-> i + 1]
           ELSE IF c0 = 1 /\ c1 = 1
           THEN insertAtomFrom_EqualNextIsSlot(sequence, atom, insertFunc, i + 1)
           ELSE IF (c0 = -1 /\ c1 = 1) \/ (c0 = -1 /\ c1 = -1)
           THEN [status |-> "OutOfOrder", seq |-> sequence, calls |-> 0,
                 index |-> -1, iterations |-> i + 1]
           ELSE [status |-> "unchanged", seq |-> sequence, calls |-> 0,
                 index |-> -1, iterations |-> i + 1]

\* mutant: the scan does not continue, an atom greater than next is placed
\* before it
RECURSIVE insertAtomFrom_NoContinue(_, _, _, _)
insertAtomFrom_NoContinue(sequence, atom, insertFunc, i) ==
  IF ~(i < Len(sequence))
  THEN [status |-> "undefined", seq |-> sequence, calls |-> 0, index |-> -1,
        iterations |-> i]
  ELSE IF i + 2 > Len(sequence)
  THEN [status |-> "TypeError", seq |-> sequence, calls |-> 0, index |-> -1,
        iterations |-> i + 1]
  ELSE LET prev == sequence[i + 1]
           next == sequence[i + 2]
           position == atom[1][1]
           prevPosition == prev[1][1]
           nextPosition == next[1][1]
           c0 == comparePositions(position, prevPosition)
           c1 == comparePositions(position, nextPosition)
       IN  IF c0 = 1 /\ c1 # 0
           THEN IF insertFunc # "undefined"
                THEN [status |-> "inserted",
                      seq |-> callInsertFunc(insertFunc, sequence, i + 1, atom),
                      calls |-> 1, index |-> i + 1, iterations |-> i + 1]
                ELSE [status |-> "TypeError", seq |-> sequence, calls |-> 0,
                      index |-> -1, iterations |-> i + 1]
           ELSE IF c0 = 1 /\ c1 = 1
           THEN insertAtomFrom_NoContinue(sequence, atom, insertFunc, i + 1)
           ELSE IF (c0 = -1 /\ c1 = 1) \/ (c0 = -1 /\ c1 = -1)
           THEN [status |-> "OutOfOrder", seq |-> sequence, calls |-> 0,
                 index |-> -1, iterations |-> i + 1]
           ELSE [status |-> "unchanged", seq |-> sequence, calls |-> 0,
                 index |-> -1, iterations |-> i + 1]

\* mutant: the error is thrown only when the atom is below both prev and next
RECURSIVE insertAtomFrom_ThrowOnlyBelowBoth(_, _, _, _)
insertAtomFrom_ThrowOnlyBelowBoth(sequence, atom, insertFunc, i) ==
  IF ~(i < Len(sequence))
  THEN [status |-> "undefined", seq |-> sequence, calls |-> 0, index |-> -1,
        iterations |-> i]
  ELSE IF i + 2 > Len(sequence)
  THEN [status |-> "TypeError", seq |-> sequence, calls |-> 0, index |-> -1,
        iterations |-> i + 1]
  ELSE LET prev == sequence[i + 1]
           next == sequence[i + 2]
           position == atom[1][1]
           prevPosition == prev[1][1]
           nextPosition == next[1][1]
           c0 == comparePositions(position, prevPosition)
           c1 == comparePositions(position, nextPosition)
       IN  IF c0 = 1 /\ c1 = -1
           THEN IF insertFunc # "undefined"
                THEN [status |-> "inserted",
                      seq |-> callInsertFunc(insertFunc, sequence, i + 1, atom),
                      calls |-> 1, index |-> i + 1, iterations |-> i + 1]
                ELSE [status |-> "TypeError", seq |-> sequence, calls |-> 0,
                      index |-> -1, iterations |-> i + 1]
           ELSE IF c0 = 1 /\ c1 = 1
           THEN insertAtomFrom_ThrowOnlyBelowBoth(sequence, atom, insertFunc, i + 1)
           ELSE IF c0 = -1 /\ c1 = -1
           THEN [status |-> "OutOfOrder", seq |-> sequence, calls |-> 0,
                 index |-> -1, iterations |-> i + 1]
           ELSE [status |-> "unchanged", seq |-> sequence, calls |-> 0,
                 index |-> -1, iterations |-> i + 1]

\* mutant: the loop stops before the last atom, which has no next
RECURSIVE insertAtomFrom_StopBeforeLast(_, _, _, _)
insertAtomFrom_StopBeforeLast(sequence, atom, insertFunc, i) ==
  IF ~(i < Len(sequence) - 1)
  THEN [status |-> "undefined", seq |-> sequence, calls |-> 0, index |-> -1,
        iterations |-> i]
  ELSE IF i + 2 > Len(sequence)
  THEN [status |-> "TypeError", seq |-> sequence, calls |-> 0, index |-> -1,
        iterations |-> i + 1]
  ELSE LET prev == sequence[i + 1]
           next == sequence[i + 2]
           position == atom[1][1]
           prevPosition == prev[1][1]
           nextPosition == next[1][1]
           c0 == comparePositions(position, prevPosition)
           c1 == comparePositions(position, nextPosition)
       IN  IF c0 = 1 /\ c1 = -1
           THEN IF insertFunc # "undefined"
                THEN [status |-> "inserted",
                      seq |-> callInsertFunc(insertFunc, sequence, i + 1, atom),
                      calls |-> 1, index |-> i + 1, iterations |-> i + 1]
                ELSE [status |-> "TypeError", seq |-> sequence, calls |-> 0,
                      index |-> -1, iterations |-> i + 1]
           ELSE IF c0 = 1 /\ c1 = 1
           THEN insertAtomFrom_StopBeforeLast(sequence, atom, insertFunc, i + 1)
           ELSE IF (c0 = -1 /\ c1 = 1) \/ (c0 = -1 /\ c1 = -1)
           THEN [status |-> "OutOfOrder", seq |-> sequence, calls |-> 0,
                 index |-> -1, iterations |-> i + 1]
           ELSE [status |-> "unchanged", seq |-> sequence, calls |-> 0,
                 index |-> -1, iterations |-> i + 1]

\* mutant: the loop runs while i <= sequenceLength and skips a pair whose next is missing
RECURSIVE insertAtomFrom_SkipMissingNext(_, _, _, _)
insertAtomFrom_SkipMissingNext(sequence, atom, insertFunc, i) ==
  IF ~(i <= Len(sequence))
  THEN [status |-> "undefined", seq |-> sequence, calls |-> 0, index |-> -1,
        iterations |-> i]
  ELSE IF i + 2 > Len(sequence)
  THEN insertAtomFrom_SkipMissingNext(sequence, atom, insertFunc, i + 1)
  ELSE LET prev == sequence[i + 1]
           next == sequence[i + 2]
           position == atom[1][1]
           prevPosition == prev[1][1]
           nextPosition == next[1][1]
           c0 == comparePositions(position, prevPosition)
           c1 == comparePositions(position, nextPosition)
       IN  IF c0 = 1 /\ c1 = -1
           THEN IF insertFunc # "undefined"
                THEN [status |-> "inserted",
                      seq |-> callInsertFunc(insertFunc, sequence, i + 1, atom),
                      calls |-> 1, index |-> i + 1, iterations |-> i + 1]
                ELSE [status |-> "TypeError", seq |-> sequence, calls |-> 0,
                      index |-> -1, iterations |-> i + 1]
           ELSE IF c0 = 1 /\ c1 = 1
           THEN insertAtomFrom_SkipMissingNext(sequence, atom, insertFunc, i + 1)
           ELSE IF (c0 = -1 /\ c1 = 1) \/ (c0 = -1 /\ c1 = -1)
           THEN [status |-> "OutOfOrder", seq |-> sequence, calls |-> 0,
                 index |-> -1, iterations |-> i + 1]
           ELSE [status |-> "unchanged", seq |-> sequence, calls |-> 0,
                 index |-> -1, iterations |-> i + 1]

\* mutant: the result of the placement function is dropped and the sequence is returned
RECURSIVE insertAtomFrom_ReturnsSequence(_, _, _, _)
insertAtomFrom_ReturnsSequence(sequence, atom, insertFunc, i) ==
  IF ~(i < Len(sequence))
  THEN [status |-> "undefined", seq |-> sequence, calls |-> 0, index |-> -1,
        iterations |-> i]
  ELSE IF i + 2 > Len(sequence)
  THEN [status |-> "TypeError", seq |-> sequence, calls |-> 0, index |-> -1,
        iterations |-> i + 1]
  ELSE LET prev == sequence[i + 1]
           next == sequence[i + 2]
           position == atom[1][1]
           prevPosition == prev[1][1]
           nextPosition == next[1][1]
           c0 == comparePositions(position, prevPosition)
           c1 == comparePositions(position, nextPosition)
       IN  IF c0 = 1 /\ c1 = -1
           THEN IF insertFunc # "undefined"
                THEN [status |-> "inserted",
                      seq |-> sequence,
                      calls |-> 1, index |-> i + 1, iterations |-> i + 1]
                ELSE [status |-> "TypeError", seq |-> sequence, calls |-> 0,
                      index |-> -1, iterations |-> i + 1]
           ELSE IF c0 = 1 /\ c1 = 1
           THEN insertAtomFrom_ReturnsSequence(sequence, atom, insertFunc, i + 1)
           ELSE IF (c0 = -1 /\ c1 = 1) \/ (c0 = -1 /\ c1 = -1)
           THEN [status |-> "OutOfOrder", seq |-> sequence, calls |-> 0,
                 index |-> -1, iterations |-> i + 1]
           ELSE [status |-> "unchanged", seq |-> sequence, calls |-> 0,
                 index |-> -1, iterations |-> i + 1]

\* mutant: the error is thrown whenever the atom is below prev, equal to next or not
RECURSIVE insertAtomFrom_ThrowBelowPrev(_, _, _, _)
insertAtomFrom_ThrowBelowPrev(sequence, atom, insertFunc, i) ==
  IF ~(i < Len(sequence))
  THEN [status |-> "undefined", seq |-> sequence, calls |-> 0, index |-> -1,
        iterations |-> i]
  ELSE IF i + 2 > Len(sequence)
  THEN [status |-> "TypeError", seq |-> sequence, calls |-> 0, index |-> -1,
        iterations |-> i + 1]
  ELSE LET prev == sequence[i + 1]
           next == sequence[i + 2]
           position == atom[1][1]
           prevPosition == prev[1][1]
           nextPosition == next[1][1]
           c0 == comparePositions(position, prevPosition)
           c1 == comparePositions(position, nextPosition)
       IN  IF c0 = 1 /\ c1 = -1
           THEN IF insertFunc # "undefined"
                THEN [status |-> "inserted",
                      seq |-> callInsertFunc(insertFunc, sequence, i + 1, atom),
                      calls |-> 1, index |-> i + 1, iterations |-> i + 1]
                ELSE [status |-> "TypeError", seq |-> sequence, calls |-> 0,
                      index |-> -1, iterations |-> i + 1]
           ELSE IF c0 = 1 /\ c1 = 1
           THEN insertAtomFrom_ThrowBelowPrev(sequence, atom, insertFunc, i + 1)
           ELSE IF c0 = -1
           THEN [status |-> "OutOfOrder", seq |-> sequence, calls |-> 0,
                 index |-> -1, iterations |-> i + 1]
           ELSE [status |-> "unchanged", seq |-> sequence, calls |-> 0,
                 index |-> -1, iterations |-> i + 1]

\* One iteration of the for loop of insertAtom and everything after it.
\* The result is [status, seq, calls, index, iterations], iterations being
\* the number of times the loop body was entered:
\*   "inserted"   insertFunc was called with (sequence, index, atom); seq is
\*                what it returned
\*   "unchanged"  the original sequence was returned
\*   "OutOfOrder" Error('Sequence out of order!') was thrown
\*   "TypeError"  sequence[i + 1] is undefined and next[0] throws, or
\*                insertFunc is undefined and calling it throws
\*   "undefined"  the loop ended and the function returned nothing
\* insertFunc is "insertAt", "replaceAt" or "undefined" (the argument was
\* left out).
RECURSIVE insertAtomFrom(_, _, _, _)
insertAtomFrom(sequence, atom, insertFunc, i) ==
  IF ~(i < Len(sequence))
  THEN [status |-> "undefined", seq |-> sequence, calls |-> 0, index |-> -1,
        iterations |-> i]
  ELSE IF i + 2 > Len(sequence)
  THEN [status |-> "TypeError", seq |-> sequence, calls |-> 0, index |-> -1,
        iterations |-> i + 1]
  ELSE LET prev == sequence[i + 1]
           next == sequence[i + 2]
           position == atom[1][1]
           prevPosition == prev[1][1]
           nextPosition == next[1][1]
           c0 == comparePositions(position, prevPosition)
           c1 == comparePositions(position, nextPosition)
       IN  IF c0 = 1 /\ c1 = -1
           THEN IF insertFunc # "undefined"
                THEN [status |-> "inserted",
                      seq |-> callInsertFunc(insertFunc, sequence, i + 1, atom),
                      calls |-> 1, index |-> i + 1, iterations |-> i + 1]
                ELSE [status |-> "TypeError", seq |-> sequence, calls |-> 0,
                      index |-> -1, iterations |-> i + 1]
           ELSE IF c0 = 1 /\ c1 = 1
           THEN insertAtomFrom(sequence, atom, insertFunc, i + 1)
           ELSE IF (c0 = -1 /\ c1 = 1) \/ (c0 = -1 /\ c1 = -1)
           THEN [status |-> "OutOfOrder", seq |-> sequence, calls |-> 0,
                 index |-> -1, iterations |-> i + 1]
           ELSE [status |-> "unchanged", seq |-> sequence, calls |-> 0,
                 index |-> -1, iterations |-> i + 1]

insertAtom(sequence, atom, insertFunc) ==
  insertAtomFrom(sequence, atom, insertFunc, 0)

(* ----------------------- enumerated inputs ----------------------------- *)
Sites == 0..MaxSite
\* the site IDs a caller of genAtomIdent may pass: those of the replicas and
\* site 3 of the README example
GenSites == Sites \cup {3}
Idents == (0..MaxInt) \X Sites
\* positions of several idents: an ident below the position of min, pairs
\* whose first idents differ by one, extensions of a common first ident, and
\* the two positions of the README example
ExtraPositions ==
  { << <<0, 0>>, <<0, 0>> >>,
    << <<0, 1>>, <<1, 0>> >>,
    << <<1, 0>>, <<0, 1>> >>,
    << <<1, 1>>, <<0, 1>> >>,
    << <<1, 1>>, <<1, 0>> >>,
    << <<1, 1>>, <<1, 0>>, <<0, 1>> >>,
    << <<1, 1>>, <<3, 2>> >>,
    << <<1, 1>>, <<5, 4>> >> }
\* every position of at most MaxLen idents, the extra ones, and max's
Positions ==
  UNION {[1..n -> Idents] : n \in 0..MaxLen} \cup ExtraPositions \cup {max[1]}
AtomIdents == Positions \X (0..MaxClock)
\* the positions of atoms: a position holds at least one ident
AtomPositions == Positions \ {<< >>}
\* mutant: the random source may return 1
Rnds_OneIncluded == 0..RandDen

Rnds == 0..(RandDen - 1)

NoCall == [op |-> "none"]
NoRet == [op |-> "none"]

\* the replica system stays in its initial state while single calls are made
\* The objects of the JavaScript heap that calls can share: the two arrays
\* ABS_MIN_ATOM_IDENT and ABS_MAX_ATOM_IDENT of the module, exported as min
\* and max, and the outer arrays of the sequences, numbered 1, 2, ...  An
\* atom in an outer array holds either the reference "min" or "max" to a
\* module array or its own atom identifier.
HeapInit ==
  [min |-> ABS_MIN_ATOM_IDENT, max |-> ABS_MAX_ATOM_IDENT, arrays |-> << >>]

SystemInit ==
  /\ seqs = [s \in Sites |-> emptySequence]
  /\ clocks = [s \in Sites |-> 0]
  /\ net = {}
  /\ applied = [s \in Sites |-> {}]
  /\ gens = {}
  /\ deps = {}
  /\ heap = HeapInit

SystemIdle == UNCHANGED <<seqs, clocks, net, applied, gens, deps, heap>>

(* ------------------- calls of compareAtomIdents ------------------------ *)
InitCmp ==
  /\ SystemInit
  /\ call \in [op : {"compare"}, a : AtomIdents, b : AtomIdents]
  /\ ret = NoRet

\* compareAtomIdents(a, b), (b, a) and (a, a)
Compare ==
  /\ ret.op = "none"
  /\ ret' = [op |-> "compare",
             ab |-> compareAtomIdents(call.a, call.b),
             ba |-> compareAtomIdents(call.b, call.a),
             aa |-> compareAtomIdents(call.a, call.a)]
  /\ UNCHANGED call
  /\ SystemIdle

\* the same comparison after the clocks of a and b were replaced
CompareReclocked ==
  /\ ret.op = "compare"
  /\ \E ca \in 0..MaxClock, cb \in 0..MaxClock :
       /\ call' = [call EXCEPT !.a = <<call.a[1], ca>>, !.b = <<call.b[1], cb>>]
       /\ ret' = [op |-> "reclock",
                  ab |-> compareAtomIdents(call'.a, call'.b),
                  before |-> ret.ab]
  /\ SystemIdle

NextCmp == Compare \/ CompareReclocked

SpecCmp == InitCmp /\ [][NextCmp]_vars

InitTrans ==
  /\ SystemInit
  /\ call \in [op : {"compare3"}, a : Positions \X {0}, b : Positions \X {0},
               c : Positions \X {0}]
  /\ ret = NoRet

Compare3 ==
  /\ ret.op = "none"
  /\ ret' = [op |-> "compare3",
             ab |-> compareAtomIdents(call.a, call.b),
             bc |-> compareAtomIdents(call.b, call.c),
             ac |-> compareAtomIdents(call.a, call.c)]
  /\ UNCHANGED call
  /\ SystemIdle

NextTrans == Compare3

SpecTrans == InitTrans /\ [][NextTrans]_vars

(* C8: compareAtomIdents is reflexive, antisymmetric and total: (a, a)     *)
(* gives 0, (a, b) is the negation of (b, a), every result is -1, 0 or 1,  *)
(* and min is less than max.                                               *)
C8_ReflexiveAntisymmetricTotal ==
  ret.op = "compare" =>
    /\ ret.aa = 0
    /\ ret.ab = -ret.ba
    /\ ret.ab \in {-1, 0, 1}
    /\ (call.a = min /\ call.b = max) => (ret.ab = -1 /\ ret.ba = 1)
    /\ (call.a = min /\ call.b = min) => ret.ab = 0

C8_Witness ==
  /\ ret.op = "compare"
  /\ call.a = min
  /\ call.b = max
  /\ ret.ab = -1
  /\ ret.ba = 1

(* C9: compareAtomIdents is transitive: (a, b) <= 0 and (b, c) <= 0 imply  *)
(* (a, c) <= 0, also between positions of different lengths.               *)
C9_Transitive ==
  ret.op = "compare3" =>
    ((ret.ab <= 0 /\ ret.bc <= 0) => ret.ac <= 0)

\* a is a proper prefix of b, and b and c differ in length
C9_Witness ==
  /\ ret.op = "compare3"
  /\ ret.ab = -1
  /\ ret.bc = -1
  /\ ret.ac = -1
  /\ Len(call.a[1]) > 0
  /\ Len(call.a[1]) < Len(call.b[1])
  /\ SubSeq(call.b[1], 1, Len(call.a[1])) = call.a[1]
  /\ Len(call.c[1]) < Len(call.b[1])

\* same length and pairwise equal integer and site
SamePosition(posA, posB) ==
  /\ Len(posA) = Len(posB)
  /\ \A k \in 1..Len(posA) : posA[k][1] = posB[k][1] /\ posA[k][2] = posB[k][2]

(* C10: the clock never influences ordering: replacing the clocks of a and *)
(* b leaves compareAtomIdents(a, b) unchanged, and the result is 0 exactly *)
(* when the positions have the same length and pairwise equal idents.      *)
C10_ClockIgnored ==
  /\ ret.op = "reclock" => ret.ab = ret.before
  /\ ret.op = "compare" => (ret.ab = 0 <=> SamePosition(call.a[1], call.b[1]))

\* equal positions, and the clocks were changed from equal to different
C10_Witness ==
  /\ ret.op = "reclock"
  /\ Len(call.a[1]) = 2
  /\ call.a[1] = call.b[1]
  /\ call.a[2] # call.b[2]
  /\ ret.ab = 0
  /\ ret.before = 0

(* --------------------- calls of genAtomIdent --------------------------- *)
InitGen ==
  /\ SystemInit
  /\ call \in [op : {"gen"}, siteID : GenSites, clock : 0..MaxClock,
               prev : AtomPositions \X {0}, next : AtomPositions \X {0},
               rnd : Rnds]
  /\ ret = NoRet

\* ret also records the trace of the genPosition call that genAtomIdent
\* makes: its recursion levels and its calls of randomIntBetween
GenAtomIdent ==
  /\ ret.op = "none"
  /\ LET g == genAtomIdent(call.siteID, call.clock, call.prev, call.next, call.rnd)
         t == genPosition(call.siteID, call.prev[1], call.next[1], call.rnd)
     IN  ret' = [op |-> "gen", err |-> g.err, ident |-> g.ident,
                 levels |-> t.levels, draws |-> t.draws,
                 dist |-> dist_genPosition(call.siteID, call.prev[1],
                                           call.next[1], call.rnd)]
  /\ UNCHANGED call
  /\ SystemIdle

NextGen == GenAtomIdent

SpecGen == InitGen /\ [][NextGen]_vars

(* C24: the bundle dist/logoot.js is equivalent to the library: for every  *)
(* site ID and pair of positions its genPosition returns the same flat     *)
(* list of identifiers, or raises the same error, as genPosition of        *)
(* lib/logoot/sequence.js, also below the first identifier and when MIN or *)
(* MAX is substituted for a position that ran out.                         *)
C24_BundleEquivalent ==
  ret.op = "gen" =>
    IF ret.err
    THEN ret.dist.err = "Error"
    ELSE /\ ret.dist.err = "none"
         /\ ret.dist.heads = << >>
         /\ ret.dist.last = ret.ident[1]

(* C1: for every site, clock and pair p, n with compareAtomIdents(p, n) =  *)
(* -1, genAtomIdent returns an identifier g with p < g and g < n, whatever *)
(* the random draw.                                                        *)
C1_StrictlyBetween ==
  (ret.op = "gen" /\ compareAtomIdents(call.prev, call.next) = -1) =>
    /\ ~ret.err
    /\ compareAtomIdents(call.prev, ret.ident) = -1
    /\ compareAtomIdents(ret.ident, call.next) = -1

(* C7: genPosition called with a prev position that is greater than or     *)
(* equal to the next position always fails with the OrderInversion error.  *)
C7_InversionRejected ==
  (ret.op = "gen" /\ compareAtomIdents(call.prev, call.next) \in {0, 1}) =>
    ret.err

(* C13: site 3 generating between [[1,1],[3,2]] and [[1,1],[5,4]] gets     *)
(* [[1,1],[3,3]]: after the equal first idents the integer of the previous *)
(* ident is reused with the new site, because 3 is greater than site 2.    *)
C13_Site3ReusesPrevInt ==
  (/\ ret.op = "gen"
   /\ call.siteID = 3
   /\ call.prev[1] = << <<1, 1>>, <<3, 2>> >>
   /\ call.next[1] = << <<1, 1>>, <<5, 4>> >>) =>
    /\ ~ret.err
    /\ ret.ident[1] = << <<1, 1>>, <<3, 3>> >>

C19_RandomStrictlyInside ==
  ret.op = "gen" =>
    \A k \in 1..Len(ret.draws) :
      LET lo == ret.draws[k][1]
          hi == ret.draws[k][2]
          r == ret.draws[k][3]
      IN  /\ hi - lo > 1
          /\ r \in Int
          /\ lo < r
          /\ r < hi

\* the narrowest interval, 3 to 5, with the largest value of the random
\* source
C19_Witness ==
  /\ ret.op = "gen"
  /\ call.rnd = RandDen - 1
  /\ ret.draws = << <<3, 5, 4>> >>

(* ------------------------ calls of insertAtom -------------------------- *)
Values == {"a", "b"}

\* positions strictly between the positions of min and max
InnerPositions ==
  {p \in AtomPositions :
     comparePositions(min[1], p) = -1 /\ comparePositions(p, max[1]) = -1}

\* positions below min's and above max's
OuterPositions == { << <<0, -1>> >>, << <<MAX_POS, 1>> >> }

StrictlyIncreasing(sequence) ==
  \A k \in 1..(Len(sequence) - 1) :
    comparePositions(sequence[k][1][1], sequence[k + 1][1][1]) = -1

\* the sentinels first and last, positions strictly increasing
WellFormed(sequence) ==
  /\ Len(sequence) >= 2
  /\ sequence[1] = <<ABS_MIN_ATOM_IDENT, null>>
  /\ sequence[Len(sequence)] = <<ABS_MAX_ATOM_IDENT, null>>
  /\ StrictlyIncreasing(sequence)

\* the sequences with at most MaxSeq atoms (clock 0, value "a") between the
\* sentinels
WellFormedSequences ==
  {sq \in { << <<ABS_MIN_ATOM_IDENT, null>> >> \o
            [k \in 1..Len(ps) |-> << <<ps[k], 0>>, "a" >>] \o
            << <<ABS_MAX_ATOM_IDENT, null>> >> :
            ps \in UNION {[1..n -> InnerPositions] : n \in 0..MaxSeq}} :
     StrictlyIncreasing(sq)}

\* the atoms a caller inserts: any position, the clock of the atoms of the
\* sequence or another one, any value
InputAtoms ==
  ((AtomPositions \cup OuterPositions) \X {0, MaxClock}) \X Values

HasPosition(sequence, position) ==
  \E k \in 1..Len(sequence) : comparePositions(sequence[k][1][1], position) = 0

InitIns ==
  /\ SystemInit
  /\ call \in [op : {"insert"}, sequence : WellFormedSequences]
  /\ ret = NoRet

\* insertAtom(sequence, atom, insertAt) for an atom of the caller
InsertAtom ==
  /\ ret.op = "none"
  /\ \E atom \in InputAtoms :
       ret' = [op |-> "insert", generated |-> FALSE, i |-> -1, atom |-> atom,
               before |-> call.sequence,
               res |-> insertAtom(call.sequence, atom, "insertAt")]
  /\ UNCHANGED call
  /\ SystemIdle

\* genAtomIdent between sequence[i] and sequence[i + 1], then insertAtom of
\* the new atom; a throw of genAtomIdent ends the call
GenInsertAtom ==
  /\ ret.op = "none"
  /\ \E i \in 0..(Len(call.sequence) - 2), siteID \in Sites,
        clock \in {MaxClock}, rnd \in Rnds, value \in {"b"} :
       LET g == genAtomIdent(siteID, clock, call.sequence[i + 1][1],
                             call.sequence[i + 2][1], rnd)
           atom == <<g.ident, value>>
       IN  IF g.err
           THEN ret' = [op |-> "generr", i |-> i]
           ELSE ret' = [op |-> "insert", generated |-> TRUE, i |-> i,
                        atom |-> atom, before |-> call.sequence,
                        res |-> insertAtom(call.sequence, atom, "insertAt")]
  /\ UNCHANGED call
  /\ SystemIdle

\* genAtomIdent between sequence[i] and sequence[i + 1], then
\* insertAtom(sequence, atom) with the placement function left out
GenInsertAtomNoFunc ==
  /\ ret.op = "none"
  /\ \E i \in 0..(Len(call.sequence) - 2), siteID \in Sites,
        clock \in {MaxClock}, rnd \in Rnds, value \in {"b"} :
       LET g == genAtomIdent(siteID, clock, call.sequence[i + 1][1],
                             call.sequence[i + 2][1], rnd)
           atom == <<g.ident, value>>
       IN  IF g.err
           THEN ret' = [op |-> "generr", i |-> i]
           ELSE ret' = [op |-> "insertNoFunc", i |-> i, atom |-> atom,
                        before |-> call.sequence,
                        res |-> insertAtom(call.sequence, atom, "undefined")]
  /\ UNCHANGED call
  /\ SystemIdle

\* insertAtom of the same atom into the sequence the first call returned
ReinsertAtom ==
  /\ ret.op = "insert"
  /\ ret.res.status \in {"inserted", "unchanged"}
  /\ ret' = [op |-> "reinsert", atom |-> ret.atom, before |-> ret.res.seq,
             res |-> insertAtom(ret.res.seq, ret.atom, "insertAt")]
  /\ UNCHANGED call
  /\ SystemIdle

\* emptySequence() called at the start or after the calls above
EmptySequence ==
  /\ ret.op \in {"none", "insert", "reinsert"}
  /\ ret' = [op |-> "emptySequence", after |-> ret.op,
             mutated |-> IF ret.op = "none" THEN FALSE
                         ELSE ret.res.status = "inserted",
             seq |-> emptySequence]
  /\ UNCHANGED call
  /\ SystemIdle

NextIns ==
  \/ InsertAtom
  \/ GenInsertAtom
  \/ GenInsertAtomNoFunc
  \/ ReinsertAtom
  \/ EmptySequence

SpecIns == InitIns /\ [][NextIns]_vars

(* C4: idempotence of insertAtom: for a well-formed sequence s and an atom *)
(* a whose position equals the position of an atom of s (a sentinel        *)
(* included, whatever a's clock or value), insertAtom returns s itself,    *)
(* unchanged, without calling the placement function; hence inserting a    *)
(* again into the result of insertAtom(s, a, f) returns that result.       *)
C4_Idempotent ==
  /\ (ret.op = "insert" /\ WellFormed(ret.before)
        /\ HasPosition(ret.before, ret.atom[1][1])) =>
       /\ ret.res.status = "unchanged"
       /\ ret.res.seq = ret.before
       /\ ret.res.calls = 0
  /\ ret.op = "reinsert" =>
       /\ ret.res.status = "unchanged"
       /\ ret.res.seq = ret.before
       /\ ret.res.calls = 0

\* an atom with the position of an atom of s but another clock and value
C4_Witness ==
  /\ ret.op = "insert"
  /\ Len(ret.before) = 3
  /\ ret.atom[1][1] = ret.before[2][1][1]
  /\ ret.atom # ret.before[2]
  /\ ret.res.status = "unchanged"

(* C5: for a well-formed sequence s and an atom a whose position is        *)
(* strictly between min's and max's and not in s, insertAtom with an       *)
(* insert-at-index placement function returns, without error and before    *)
(* the scan exhausts the list, s with a added at the one index that keeps  *)
(* the positions strictly increasing; an atom generated between adjacent   *)
(* atoms p and n lands exactly between p and n.                            *)
C5_InsertedInOrder ==
  (ret.op = "insert" /\ WellFormed(ret.before)
     /\ comparePositions(min[1], ret.atom[1][1]) = -1
     /\ comparePositions(ret.atom[1][1], max[1]) = -1
     /\ ~HasPosition(ret.before, ret.atom[1][1])) =>
    LET k == ret.res.index
    IN  /\ ret.res.status = "inserted"
        /\ ret.res.calls = 1
        /\ k \in 1..(Len(ret.before) - 1)
        /\ ret.res.seq = SubSeq(ret.before, 1, k) \o <<ret.atom>> \o
                         SubSeq(ret.before, k + 1, Len(ret.before))
        /\ WellFormed(ret.res.seq)
        /\ \A j \in 1..(Len(ret.before) - 1) :
             (/\ comparePositions(ret.before[j][1][1], ret.atom[1][1]) = -1
              /\ comparePositions(ret.atom[1][1], ret.before[j + 1][1][1]) = -1)
             => k = j
        /\ (/\ ret.generated
            /\ compareAtomIdents(ret.before[ret.i + 1][1], ret.atom[1]) = -1
            /\ compareAtomIdents(ret.atom[1], ret.before[ret.i + 2][1]) = -1)
             => /\ ret.res.seq[ret.i + 1] = ret.before[ret.i + 1]
                /\ ret.res.seq[ret.i + 2] = ret.atom
                /\ ret.res.seq[ret.i + 3] = ret.before[ret.i + 2]
        /\ (ret.generated /\ ret.before = emptySequence)
             => ret.res.seq = <<ret.before[1], ret.atom, ret.before[2]>>
        /\ (/\ ret.generated
            /\ Len(ret.before) = 3
            /\ Len(ret.before[2][1][1]) = 1
            /\ ret.before[2][1][1][1][1] > 0
            /\ ret.i = 1)
             => ret.res.seq = <<ret.before[1], ret.before[2], ret.atom,
                                ret.before[3]>>

\* an atom generated between the second atom and max of a sequence of three
\* lands at index 2
C5_Witness ==
  /\ ret.op = "insert"
  /\ ret.generated
  /\ Len(ret.before) = 3
  /\ ret.i = 1
  /\ ret.res.status = "inserted"
  /\ ret.res.index = 2
  /\ ret.res.seq = <<ret.before[1], ret.before[2], ret.atom, ret.before[3]>>

(* C14: insertAtom called with a sequence and an atom only, no placement   *)
(* function, inserts the atom and returns the resulting ordered sequence:  *)
(* [min, atom, max] for an atom generated between min and max of the       *)
(* empty sequence.                                                         *)
C14_InsertsWithoutPlacement ==
  (/\ ret.op = "insertNoFunc"
   /\ WellFormed(ret.before)
   /\ compareAtomIdents(ret.before[ret.i + 1][1], ret.atom[1]) = -1
   /\ compareAtomIdents(ret.atom[1], ret.before[ret.i + 2][1]) = -1) =>
    /\ ret.res.status = "inserted"
    /\ ret.res.seq = SubSeq(ret.before, 1, ret.i + 1) \o <<ret.atom>> \o
                     SubSeq(ret.before, ret.i + 2, Len(ret.before))
    /\ (ret.before = emptySequence =>
          ret.res.seq = << <<min, null>>, ret.atom, <<max, null>> >>)

(* C11: emptySequence() returns exactly the two sentinel atoms             *)
(* [[[[0,0]],0], null] and [[[[32767,0]],1], null], on every call and      *)
(* whatever was inserted before into other sequences.                      *)
C11_EmptySequenceIsSentinels ==
  ret.op = "emptySequence" =>
    /\ Len(ret.seq) = 2
    /\ ret.seq[1] = << << << <<0, 0>> >>, 0 >>, "null" >>
    /\ ret.seq[2] = << << << <<32767, 0>> >>, 1 >>, "null" >>

\* emptySequence() called after an atom was spliced into a sequence that was
\* itself an empty sequence
C11_Witness ==
  /\ ret.op = "emptySequence"
  /\ ret.after = "insert"
  /\ ret.mutated
  /\ call.sequence = ret.seq
  /\ Len(call.sequence) = 2

(* ------------- calls on sequences that need not be sorted -------------- *)
\* insertAtom and genPosition accept any array of atoms and any two
\* positions; the sequences here are all arrays of up to MaxSeq + 2 atoms,
\* sorted or not, with or without sentinels.
ScanPositions ==
  {<<id>> : id \in Idents} \cup {max[1]} \cup
  { << <<1, 1>>, <<1, 0>> >>, << <<1, 1>>, <<1, 0>>, <<0, 1>> >> }

\* the atom of a sequence at a position: a sentinel at the position of min
\* or max, an atom of clock 0 and value "a" elsewhere
ScanAtom(position) ==
  IF position = min[1] THEN <<ABS_MIN_ATOM_IDENT, null>>
  ELSE IF position = max[1] THEN <<ABS_MAX_ATOM_IDENT, null>>
  ELSE << <<position, 0>>, "a" >>

ScanSequences ==
  UNION {[1..n -> {ScanAtom(p) : p \in ScanPositions}] : n \in 0..(MaxSeq + 2)}

ScanInputAtoms ==
  {<< <<p, MaxClock>>, "b" >> : p \in ScanPositions \cup OuterPositions}

InitScan ==
  /\ SystemInit
  /\ call \in [op : {"scan"}, sequence : ScanSequences]
  /\ ret = NoRet

\* insertAtom(sequence, atom, insertFunc) for two placement functions
ScanInsertAtom ==
  /\ ret.op = "none"
  /\ \E atom \in ScanInputAtoms, insertFunc \in {"insertAt", "replaceAt"} :
       ret' = [op |-> "insert", atom |-> atom, before |-> call.sequence,
               insertFunc |-> insertFunc,
               res |-> insertAtom(call.sequence, atom, insertFunc)]
  /\ UNCHANGED call
  /\ SystemIdle

\* genPosition(siteID, prev, next) for the positions of the first two atoms
\* of the sequence, in whatever order they are
ScanGenPosition ==
  /\ ret.op = "none"
  /\ Len(call.sequence) >= 2
  /\ \E siteID \in Sites, rnd \in Rnds :
       LET prev == call.sequence[1][1][1]
           next == call.sequence[2][1][1]
       IN  ret' = [op |-> "gen", prev |-> prev, next |-> next,
                   res |-> genPosition(siteID, prev, next, rnd)]
  /\ UNCHANGED call
  /\ SystemIdle

NextScan == ScanInsertAtom \/ ScanGenPosition

SpecScan == InitScan /\ [][NextScan]_vars

\* the pair (sequence[k], sequence[k + 1]), counted from 1, is examined by
\* the scan for the position: it exists and the scan continued at every
\* pair before it
PairReached(sequence, position, k) ==
  /\ k + 1 <= Len(sequence)
  /\ \A j \in 1..(k - 1) :
       /\ comparePositions(position, sequence[j][1][1]) = 1
       /\ comparePositions(position, sequence[j + 1][1][1]) = 1

(* C15 as stated: if at any pair of the scan the position of the new atom  *)
(* compares less than the position of the current prev, insertAtom fails   *)
(* with 'Sequence out of order!', does not call the placement function     *)
(* and leaves the sequence unchanged.                                      *)
C15_LessThanPrevIsOutOfOrder ==
  (/\ ret.op = "insert"
   /\ \E k \in 1..Len(ret.before) :
        /\ PairReached(ret.before, ret.atom[1][1], k)
        /\ comparePositions(ret.atom[1][1], ret.before[k][1][1]) = -1) =>
    /\ ret.res.status = "OutOfOrder"
    /\ ret.res.calls = 0
    /\ ret.res.seq = ret.before

(* C15 amended: the same, when in addition the position of the new atom    *)
(* differs from the position of the current next; when it equals the       *)
(* position of next the original sequence is returned.                     *)
C15_LessThanPrevNotNextIsOutOfOrder ==
  ret.op = "insert" =>
    \A k \in 1..Len(ret.before) :
      (/\ PairReached(ret.before, ret.atom[1][1], k)
       /\ comparePositions(ret.atom[1][1], ret.before[k][1][1]) = -1) =>
        /\ ret.res.calls = 0
        /\ ret.res.seq = ret.before
        /\ IF comparePositions(ret.atom[1][1], ret.before[k + 1][1][1]) = 0
           THEN ret.res.status = "unchanged"
           ELSE ret.res.status = "OutOfOrder"

\* an atom below the minimum sentinel of a well-formed sequence
C15_Witness ==
  /\ ret.op = "insert"
  /\ WellFormed(ret.before)
  /\ Len(ret.before) = 3
  /\ comparePositions(ret.atom[1][1], min[1]) = -1
  /\ ret.res.status = "OutOfOrder"

(* C16: if the scan reaches the end of a sequence of at least two atoms,   *)
(* the position of the atom being greater than the position of every atom  *)
(* including the last, insertAtom fails with an error that is neither      *)
(* 'Sequence out of order!' nor the error of genPosition; it does not      *)
(* return a value and does not call the placement function.                *)
C16_EndOfScanFails ==
  (/\ ret.op = "insert"
   /\ Len(ret.before) >= 2
   /\ \A k \in 1..Len(ret.before) :
        comparePositions(ret.atom[1][1], ret.before[k][1][1]) = 1) =>
    /\ ret.res.status = "TypeError"
    /\ ret.res.status \notin {"OutOfOrder", "OrderInversion", "undefined",
                               "unchanged", "inserted"}
    /\ ret.res.calls = 0
    /\ ret.res.seq = ret.before

\* an atom above the maximum sentinel of a well-formed sequence of three
C16_Witness ==
  /\ ret.op = "insert"
  /\ WellFormed(ret.before)
  /\ Len(ret.before) = 3
  /\ comparePositions(ret.atom[1][1], max[1]) = 1
  /\ ret.res.status = "TypeError"
  /\ ret.res.iterations = 3

(* C17: termination: every call of genPosition ends, with a position or    *)
(* with its error, after at most max(len(prev), len(next)) + 1 recursion   *)
(* levels, whatever the inputs, and every call of insertAtom ends after at *)
(* most len(sequence) iterations of its loop.                              *)
C17_Termination ==
  /\ ret.op = "gen" =>
       LET m == IF Len(ret.prev) > Len(ret.next) THEN Len(ret.prev)
                ELSE Len(ret.next)
       IN  /\ ret.res.levels \in 1..(m + 1)
           /\ ret.res.err \in BOOLEAN
           /\ ~ret.res.err => Len(ret.res.pos) = ret.res.levels
  /\ ret.op = "insert" =>
       /\ ret.res.iterations \in 0..Len(ret.before)
       /\ ret.res.status \in {"inserted", "unchanged", "OutOfOrder",
                               "TypeError", "undefined"}

\* a call of genPosition that used all its levels on positions of two and
\* three idents
C17_Witness ==
  /\ ret.op = "gen"
  /\ Len(ret.prev) = 2
  /\ Len(ret.next) = 3
  /\ ret.res.levels = 4
  /\ ~ret.res.err

(* C21: during one insertAtom call the placement function is called at    *)
(* most once, only when a pair with prev < atom < next has been found,     *)
(* with the sequence, the index i + 1 of next and the atom, and insertAtom *)
(* returns exactly what it returns; it is not called when the atom is a    *)
(* duplicate or when an error is raised.                                   *)
C21_PlacementProtocol ==
  ret.op = "insert" =>
    LET s == ret.before
        position == ret.atom[1][1]
        slots == {k \in 1..(Len(s) - 1) :
                    /\ PairReached(s, position, k)
                    /\ comparePositions(position, s[k][1][1]) = 1
                    /\ comparePositions(position, s[k + 1][1][1]) = -1}
        k == ret.res.index
    IN  /\ ret.res.calls \in {0, 1}
        /\ ret.res.calls = 1 <=> slots # {}
        /\ ret.res.calls = 1 <=> ret.res.status = "inserted"
        /\ ret.res.calls = 1 =>
             /\ k \in slots
             /\ ret.insertFunc = "insertAt" =>
                  ret.res.seq = SubSeq(s, 1, k) \o <<ret.atom>> \o
                                SubSeq(s, k + 1, Len(s))
             /\ ret.insertFunc = "replaceAt" =>
                  ret.res.seq = [s EXCEPT ![k + 1] = ret.atom]
        /\ ret.res.calls = 0 =>
             /\ ret.res.seq = s
             /\ ret.res.index = -1
        /\ (\E j \in 1..(Len(s) - 1) :
              /\ PairReached(s, position, j)
              /\ \/ comparePositions(position, s[j][1][1]) = 0
                 \/ comparePositions(position, s[j + 1][1][1]) = 0)
             => ret.res.calls = 0
        /\ ret.res.status \in {"OutOfOrder", "TypeError"} => ret.res.calls = 0

\* the overwriting placement function was called for the second pair and
\* its result, not an insertion, was returned
C21_Witness ==
  /\ ret.op = "insert"
  /\ ret.insertFunc = "replaceAt"
  /\ ret.res.calls = 1
  /\ ret.res.index = 2
  /\ Len(ret.res.seq) = Len(ret.before)
  /\ ret.res.seq[3] = ret.atom

(* C23 as stated: insertAtom raises OutOfOrder exactly when the position   *)
(* of the atom is less than the position of sequence[0]; at every pair     *)
(* i > 0 that is reached the comparison with prev is 1, so an unsorted     *)
(* interior is not reported: the atom is placed at the first pair with     *)
(* prev < atom < next, or taken for a duplicate at the first pair where it *)
(* equals prev or next.  Stated for sequences of at least two atoms.       *)
C23_OutOfOrderIffBelowFirst ==
  ret.op = "insert" =>
    LET s == ret.before
        position == ret.atom[1][1]
    IN  /\ ret.res.status = "OutOfOrder" <=>
             (Len(s) >= 2 /\ comparePositions(position, s[1][1][1]) = -1)
        /\ \A k \in 2..(Len(s) - 1) :
             PairReached(s, position, k) =>
               comparePositions(position, s[k][1][1]) = 1

(* C23 amended: insertAtom raises OutOfOrder exactly when the sequence has *)
(* at least two atoms and the position of the atom is less than the        *)
(* position of sequence[0] and differs from the position of sequence[1];   *)
(* the rest as stated.                                                     *)
C23_OutOfOrderIffBelowFirstNotSecond ==
  ret.op = "insert" =>
    LET s == ret.before
        position == ret.atom[1][1]
    IN  /\ ret.res.status = "OutOfOrder" <=>
             /\ Len(s) >= 2
             /\ comparePositions(position, s[1][1][1]) = -1
             /\ comparePositions(position, s[2][1][1]) # 0
        /\ \A k \in 2..(Len(s) - 1) :
             PairReached(s, position, k) =>
               comparePositions(position, s[k][1][1]) = 1
        /\ \A k \in 1..(Len(s) - 1) :
             PairReached(s, position, k) =>
               LET c0 == comparePositions(position, s[k][1][1])
                   c1 == comparePositions(position, s[k + 1][1][1])
               IN  /\ (c0 = 1 /\ c1 = -1) =>
                        ret.res.status = "inserted" /\ ret.res.index = k
                   /\ (c0 = 0 \/ c1 = 0) => ret.res.status = "unchanged"

\* the first two atoms of the sequence are out of order, the scan passes
\* them and places the atom at the second pair
C23_Witness ==
  /\ ret.op = "insert"
  /\ Len(ret.before) >= 3
  /\ comparePositions(ret.before[1][1][1], ret.before[2][1][1]) = 1
  /\ ret.res.status = "inserted"
  /\ ret.res.index = 2

(* ------------------------ system of replicas --------------------------- *)
\* Every site holds a sequence that starts as emptySequence().  A site
\* generates an atom between two adjacent atoms of its sequence with its
\* current clock, inserts it and sends it to the others; atoms in flight are
\* delivered in any order and any number of times.
\* the values of the atoms the sites generate
SiteValues == {"a"}

Init ==
  /\ SystemInit
  /\ call = NoCall
  /\ ret = NoRet

\* observe tells whether the outcome of the call is recorded in ret
GenerateAtom(site, observe) ==
  /\ Cardinality(net) < MaxAtoms
  /\ \E i \in 0..(Len(seqs[site]) - 2), rnd \in Rnds, value \in SiteValues :
       LET g == genAtomIdent(site, clocks[site], seqs[site][i + 1][1],
                             seqs[site][i + 2][1], rnd)
           atom == <<g.ident, value>>
           res == insertAtom(seqs[site], atom, "insertAt")
       IN  IF g.err
           THEN /\ ret' = IF observe
                           THEN [op |-> "generate", site |-> site,
                                 status |-> "OrderInversion"]
                           ELSE NoRet
                /\ UNCHANGED <<seqs, clocks, net, applied, gens>>
           ELSE /\ seqs' = [seqs EXCEPT ![site] = res.seq]
                /\ clocks' = [clocks EXCEPT ![site] = @ + 1]
                /\ net' = net \cup {atom}
                /\ applied' = [applied EXCEPT ![site] = @ \cup {atom}]
                /\ gens' = gens \cup {<<site, g.ident[1]>>}
                /\ ret' = IF observe
                           THEN [op |-> "generate", site |-> site,
                                 status |-> res.status]
                           ELSE NoRet
  /\ UNCHANGED <<call, heap>>

Generate(site) ==
  /\ GenerateAtom(site, TRUE)
  /\ UNCHANGED deps

\* insertAtom of the atom into the sequence of the site
ReceiveAtom(site, atom, observe) ==
  LET res == insertAtom(seqs[site], atom, "insertAt")
  IN  /\ seqs' = [seqs EXCEPT ![site] = res.seq]
      /\ applied' = [applied EXCEPT ![site] = @ \cup {atom}]
      /\ ret' = IF observe
                 THEN [op |-> "receive", site |-> site, status |-> res.status]
                 ELSE NoRet
      /\ UNCHANGED <<clocks, net, gens, deps, heap, call>>

Receive(site) == \E atom \in net : ReceiveAtom(site, atom, TRUE)

Next == \E site \in Sites : Generate(site) \/ Receive(site)

Spec == Init /\ [][Next]_vars

(* C2: convergence: any two replicas that have applied the same set of     *)
(* atoms through insertAtom hold identical sequences.                      *)
C2_Convergence ==
  \A r1 \in Sites, r2 \in Sites :
    applied[r1] = applied[r2] => seqs[r1] = seqs[r2]

\* two replicas hold the same sequence of two generated atoms, one from each
C2_Witness ==
  /\ applied[0] = applied[1]
  /\ Len(seqs[0]) = 4
  /\ seqs[0] = seqs[1]
  /\ <<0, seqs[0][2][1][1]>> \in gens
  /\ <<1, seqs[0][3][1][1]>> \in gens
  /\ ret.op = "receive"
  /\ ret.status = "inserted"

(* C3: sequence invariant: in every reachable state the first atom of a    *)
(* sequence is [min, null], the last is [max, null], and the positions are *)
(* strictly increasing from first to last.                                 *)
C3_SequenceInvariant ==
  \A site \in Sites : WellFormed(seqs[site])

C3_Witness ==
  /\ ret.op = "generate"
  /\ ret.status = "inserted"
  /\ Len(seqs[ret.site]) = 4
  /\ WellFormed(seqs[ret.site])

(* C6: uniqueness without coordination: two positions generated at sites   *)
(* with different site IDs are never equal, and no generated position      *)
(* equals the position of min or of max.                                   *)
C6_UniquePositions ==
  /\ \A g1 \in gens, g2 \in gens :
       g1[1] # g2[1] => comparePositions(g1[2], g2[2]) # 0
  /\ \A g \in gens :
       /\ comparePositions(g[2], min[1]) # 0
       /\ comparePositions(g[2], max[1]) # 0

\* two sites generated between the same neighbours with the same draw
C6_Witness ==
  \E g1 \in gens, g2 \in gens :
    /\ g1[1] # g2[1]
    /\ Len(g1[2]) = Len(g2[2])
    /\ \A k \in 1..Len(g1[2]) : g1[2][k][1] = g2[2][k][1]

(* ------------------ replicas with causal delivery ---------------------- *)
\* The same replicas, but every generated atom is recorded with the atoms
\* its site had applied when it generated it, and a site applies an atom
\* only after it has applied all of those.  The outcomes of the calls are
\* not recorded in ret: the state is the replicas and the atoms in flight.
CausalGenerate(site) ==
  /\ GenerateAtom(site, FALSE)
  /\ deps' = deps \cup {<<a, applied[site]>> : a \in net' \ net}

CausalReceive(site) ==
  \E d \in deps :
    /\ d[1] \in net
    /\ d[2] \subseteq applied[site]
    /\ ReceiveAtom(site, d[1], FALSE)

\* genAtomIdent called between two adjacent atoms of the sequence of a
\* replica, for any site ID; nothing is inserted.  ret records whether the
\* call threw, how the identifier compares with its neighbours and whether
\* its position has more than one ident.
CausalGenAtomIdent(site) ==
  /\ ret.op = "none"
  /\ \E i \in 1..(Len(seqs[site]) - 1), siteID \in GenSites, rnd \in Rnds :
       LET prev == seqs[site][i][1]
           next == seqs[site][i + 1][1]
           g == genAtomIdent(siteID, clocks[site], prev, next, rnd)
       IN  ret' = [op |-> "gen", err |-> g.err,
                   lower |-> IF g.err THEN 0
                             ELSE compareAtomIdents(prev, g.ident),
                   upper |-> IF g.err THEN 0
                             ELSE compareAtomIdents(g.ident, next),
                   extended |-> Len(g.ident[1]) > 1,
                   crowded |-> Len(seqs[site]) > 3]
  /\ UNCHANGED <<seqs, clocks, net, applied, gens, deps, heap, call>>

\* the replicas that take steps: the lowest and the highest site ID
CausalSites == {0, MaxSite}

NextCausal ==
  \E site \in CausalSites :
    CausalGenerate(site) \/ CausalReceive(site) \/ CausalGenAtomIdent(site)

SpecCausal == Init /\ [][NextCausal]_vars

(* C12: density: in every state reached by generation between adjacent    *)
(* atoms and insertion, with causal delivery between replicas of distinct  *)
(* site IDs and no deletion, genAtomIdent for any two adjacent atoms of a  *)
(* replica's sequence and any site ID raises no error and yields an        *)
(* identifier strictly between the two, whatever the random draw.          *)
C12_Density ==
  ret.op = "gen" =>
    /\ ~ret.err
    /\ ret.lower = -1
    /\ ret.upper = -1

\* an identifier of several idents was generated in a sequence that holds
\* two generated atoms already, one of them received from another site and
\* one of them squeezed in with a position of two idents
C12_Witness ==
  /\ ret.op = "gen"
  /\ ~ret.err
  /\ ret.extended
  /\ ret.crowded
  /\ \E site \in Sites :
       /\ Len(seqs[site]) = 4
       /\ \E a \in applied[site] : a[1][1][Len(a[1][1])][2] # site
       /\ \E i \in 2..3 : Len(seqs[site][i][1][1]) = 2

(* C20: in every sequence reached from emptySequence() by generation and   *)
(* insertion, every ident [n, s] of every position has 0 <= n <= MAX_POS   *)
(* (32767), and the MAX sentinel is the only atom whose position holds an  *)
(* ident with n = MAX_POS.                                                 *)
C20_IdentRange ==
  \A site \in Sites :
    \A k \in 1..Len(seqs[site]) :
      LET atom == seqs[site][k]
          position == atom[1][1]
      IN  \A j \in 1..Len(position) :
            /\ 0 <= position[j][1]
            /\ position[j][1] <= 32767
            /\ position[j][1] = 32767 =>
                 /\ atom = << << << <<32767, 0>> >>, 1 >>, "null" >>
                 /\ k = Len(seqs[site])

\* a replica holds two generated atoms, one drawn just above the minimum
\* and one at a second level
C20_Witness ==
  \E site \in Sites :
    /\ Len(seqs[site]) = 4
    /\ seqs[site][2][1][1][1][1] \in {0, 1}
    /\ \E k \in 2..3 : Len(seqs[site][k][1][1]) = 2
    /\ ret.op \in {"generate", "receive"}


(* ------------------- calls on shared heap objects ---------------------- *)
\* A caller holds the sequences that its calls of emptySequence() returned
\* (call.handles, the addresses of their outer arrays), generates atoms
\* between adjacent atoms, inserts them with a placement function that
\* splices the outer array in place, inserts atoms it finds in its
\* sequences, and compares atom identifiers.
\* the atom a cell of an outer array stands for
deref(h, cell) ==
  IF cell[1] = "min" THEN <<h.min, cell[2]>>
  ELSE IF cell[1] = "max" THEN <<h.max, cell[2]>>
  ELSE cell

derefSequence(h, a) ==
  [k \in 1..Len(h.arrays[a]) |-> deref(h, h.arrays[a][k])]

\* mutant: emptySequence() hands out one array of the module
newArray_Shared(h) == 1

\* the address of the array that the array literal of emptySequence() creates
newArray(h) == Len(h.arrays) + 1

\* emptySequence(): [heap, addr], the heap after the call and the address of
\* the returned array, whose two atoms refer to the module's identifiers
heapEmptySequence(h) ==
  LET addr == newArray(h)
      n == IF addr > Len(h.arrays) THEN addr ELSE Len(h.arrays)
  IN  [heap |-> [h EXCEPT !.arrays =
                   [a \in 1..n |-> IF a = addr
                                   THEN << <<"min", null>>, <<"max", null>> >>
                                   ELSE h.arrays[a]]],
       addr |-> addr]

\* the placement function sequence.splice(index, 0, atom) on the array at a
heapInsertAt(h, a, index, atom) ==
  [h EXCEPT !.arrays[a] = insertAt(@, index, atom)]

\* the number of atoms spliced into the first n arrays
RECURSIVE heapAtoms(_, _)
heapAtoms(h, n) ==
  IF n = 0 THEN 0 ELSE Len(h.arrays[n]) - 2 + heapAtoms(h, n - 1)

\* the number of sequences the caller creates
HeapHandles == 2

InitHeap ==
  /\ SystemInit
  /\ call = [op |-> "heap", handles |-> << >>]
  /\ ret = NoRet

HeapEmptySequence ==
  /\ Len(call.handles) < HeapHandles
  /\ LET r == heapEmptySequence(heap)
     IN  /\ heap' = r.heap
         /\ call' = [call EXCEPT !.handles = Append(@, r.addr)]
         /\ ret' = [op |-> "emptySequence", handle |-> Len(call.handles) + 1,
                    before |-> heap]
  /\ UNCHANGED <<seqs, clocks, net, applied, gens, deps>>

\* insertAtom(sequence, atom, insertFunc) on the sequence of handle n, where
\* insertFunc splices in place; insertAtom itself writes nothing
HeapInsert(n, atom) ==
  LET a == call.handles[n]
      res == insertAtom(derefSequence(heap, a), atom, "insertAt")
  IN  /\ res.calls = 1 => heapAtoms(heap, Len(heap.arrays)) < MaxAtoms
      /\ heap' = IF res.calls = 1
                 THEN heapInsertAt(heap, a, res.index, atom)
                 ELSE heap
      /\ ret' = [op |-> "insert", handle |-> n, before |-> heap,
                 atom |-> atom, status |-> res.status, index |-> res.index]
      /\ UNCHANGED <<seqs, clocks, net, applied, gens, deps, call>>

\* genAtomIdent of one site between two adjacent atoms of a sequence, then
\* insertAtom
HeapGenInsertAtom ==
  \E n \in 1..Len(call.handles), siteID \in {MaxSite}, rnd \in Rnds :
    \E i \in 1..(Len(heap.arrays[call.handles[n]]) - 1) :
      LET s == derefSequence(heap, call.handles[n])
          g == genAtomIdent(siteID, MaxClock, s[i][1], s[i + 1][1], rnd)
      IN  /\ ~g.err
          /\ HeapInsert(n, <<g.ident, "b">>)

\* insertAtom of an atom found in one of the sequences, a sentinel included
HeapInsertKnownAtom ==
  \E n \in 1..Len(call.handles), m \in 1..Len(call.handles) :
    \E k \in 1..Len(heap.arrays[call.handles[m]]) :
      HeapInsert(n, derefSequence(heap, call.handles[m])[k])

\* compareAtomIdents on an atom identifier of a sequence and itself or a
\* neighbour
HeapCompareAtomIdents ==
  /\ \E n \in 1..Len(call.handles) :
       \E i \in 1..Len(heap.arrays[call.handles[n]]),
          j \in 1..Len(heap.arrays[call.handles[n]]) :
         /\ j \in {i - 1, i, i + 1}
         /\ LET s == derefSequence(heap, call.handles[n])
            IN  ret' = [op |-> "compare", handle |-> n, before |-> heap,
                        result |-> compareAtomIdents(s[i][1], s[j][1])]
  /\ UNCHANGED <<seqs, clocks, net, applied, gens, deps, heap, call>>

NextHeap ==
  \/ HeapEmptySequence
  \/ HeapGenInsertAtom
  \/ HeapInsertKnownAtom
  \/ HeapCompareAtomIdents

SpecHeap == InitHeap /\ [][NextHeap]_vars

(* C22: frame: compareAtomIdents and genAtomIdent do not modify their      *)
(* arguments and insertAtom itself modifies neither the sequence nor an    *)
(* atom: the sequence changes only through the placement function,         *)
(* existing atoms keep their identifier, value and relative order, a       *)
(* successful insert grows the length by exactly one, and inserting into   *)
(* one emptySequence() result leaves every other emptySequence() result    *)
(* and the exported min and max unchanged.                                 *)
C22_Frame ==
  ret.op # "none" =>
    /\ heap.min = << << <<0, 0>> >>, 0 >>
    /\ heap.max = << << <<32767, 0>> >>, 1 >>
    /\ ret.op = "compare" => heap = ret.before
    /\ \A m \in 1..Len(call.handles) :
         (m # ret.handle /\ call.handles[m] \in 1..Len(ret.before.arrays)) =>
           /\ heap.arrays[call.handles[m]] = ret.before.arrays[call.handles[m]]
           /\ derefSequence(heap, call.handles[m]) =
                derefSequence(ret.before, call.handles[m])
    /\ ret.op = "emptySequence" =>
         derefSequence(heap, call.handles[ret.handle]) =
           << << << << <<0, 0>> >>, 0 >>, "null" >>,
              << << << <<32767, 0>> >>, 1 >>, "null" >> >>
    /\ ret.op = "insert" =>
         LET before == derefSequence(ret.before, call.handles[ret.handle])
             after == derefSequence(heap, call.handles[ret.handle])
             k == ret.index
         IN  IF ret.status = "inserted"
             THEN /\ Len(after) = Len(before) + 1
                  /\ after[k + 1] = ret.atom
                  /\ \A j \in 1..Len(before) :
                       before[j] = after[IF j <= k THEN j ELSE j + 1]
             ELSE after = before

\* an atom was spliced into the second of two sequences after an atom had
\* been spliced into the first
C22_Witness ==
  /\ ret.op = "insert"
  /\ ret.status = "inserted"
  /\ ret.handle = 2
  /\ Len(call.handles) = 2
  /\ Len(heap.arrays[call.handles[1]]) = 3
  /\ Len(heap.arrays[call.handles[2]]) = 3

====
